---- MODULE Spec2Model ----
(***************************************************************************)
(* A model of the COVID-19 dashboard script (src/app.py) and of the        *)
(* dataset diagnostic command (src/scripts/check_data.py).                 *)
(*                                                                         *)
(* A cell of a table is a sequence: the empty sequence is a missing value  *)
(* (NaN / NaT), a one-element sequence is a value.  The text of a date     *)
(* cell, as read_csv delivers it, is the sequence of its characters; only  *)
(* the day field of the text is kept (the other fields are the same in     *)
(* every cell), a character being a digit 0..9 or NonDigit.                *)
(***************************************************************************)
EXTENDS Integers, Sequences, FiniteSets, TLC

VARIABLES pc, df, loaded, n, country, country_df, top10, metric, date_col,
          locations, date_range, latest, displayed, outcome,
          cli_pc, cli_path, cli_file, cli_i, cli_out, cli_exit

vars == <<pc, df, loaded, n, country, country_df, top10, metric, date_col,
          locations, date_range, latest, displayed, outcome,
          cli_pc, cli_path, cli_file, cli_i, cli_out, cli_exit>>

appVars == <<pc, df, loaded, n, country, country_df, top10, metric, date_col,
             locations, date_range, latest, displayed, outcome>>

cliVars == <<cli_pc, cli_path, cli_file, cli_i, cli_out, cli_exit>>

(* pc          the block of src/app.py the run is about to execute          *)
(* df          the table the name df is bound to                            *)
(* loaded      history: the table as the last load left it                  *)
(* n           the count given to nlargest                                  *)
(* country, country_df, top10, metric, date_col, locations, date_range,     *)
(* latest      the names of the script                                      *)
(* displayed   what the page shows so far                                   *)
(* outcome     "running", "finished", "stopped" (st.stop) or the exception  *)
(*             that ended the run                                           *)
(* cli_*       the run of check_data.py: its place, the path given, the     *)
(*             columns of the file read, the loop index, the lines printed  *)
(*             and the exit status                                          *)

----------------------------------------------------------------------------
(* Bounds of the model.                                                    *)

(* Rows of a file the dashboard loads.                                     *)
MaxRows == 3

(* Rows of a table in SpecTopN.                                            *)
MaxTopRows == 3

(* Greatest count given to nlargest in SpecTopN.                           *)
MaxN == 2

(* Columns of a file the diagnostic command reads.                         *)
MaxCliCols == 2

(* nlargest(10), src/app.py line 122.                                      *)
TopN == 10

----------------------------------------------------------------------------
(* Cells.                                                                  *)

Null == <<>>

IsNull(c) == c = <<>>

NonDigit == 9 + 1

IsDigit(ch) == ch \in 0..9

(* The date texts a file may hold: "9", "10", an unparseable text, and the *)
(* empty cell.                                                             *)
DateTexts == { <<9>>, <<1, 0>>, <<NonDigit>>, Null }

(* The locations and the total_cases values of the files of Spec and       *)
(* SpecMap; SpecTopN has its own, with values that differ.                 *)
LocationValues == { <<"A">>, <<"B">>, Null }

CaseValues == { <<1>> }

RECURSIVE DecimalValue(_)
DecimalValue(text) ==
    IF text = <<>> THEN 0
    ELSE 10 * DecimalValue(SubSeq(text, 1, Len(text) - 1)) + text[Len(text)]

(* pd.to_datetime(value, errors="coerce") on one cell: a text of digits is *)
(* the day it names, anything else is NaT.                                 *)
ToDatetimeCell(text) ==
    IF text # <<>> /\ \A i \in 1..Len(text) : IsDigit(text[i])
    THEN <<DecimalValue(text)>>
    ELSE Null

(* Order of two texts as Python compares str: character by character, a    *)
(* proper prefix first.                                                    *)
RECURSIVE StrLess(_, _)
StrLess(a, b) ==
    IF b = <<>> THEN FALSE
    ELSE IF a = <<>> THEN TRUE
    ELSE IF a[1] # b[1] THEN a[1] < b[1]
    ELSE StrLess(Tail(a), Tail(b))

----------------------------------------------------------------------------
(* Tables.  A table is its set of column names, whether its date column    *)
(* holds datetimes (after to_datetime) or the texts read from the file,    *)
(* and its rows in order.  Only location, date and total_cases carry       *)
(* values in the model; of the other columns only the presence counts.     *)

AllColumns == { "location", "date", "total_cases", "total_deaths", "new_cases",
                "new_deaths", "population", "continent", "iso_code" }

NumericColumns == { "total_cases", "total_deaths", "new_cases", "new_deaths",
                    "population" }

(* The numeric columns of a table, as select_dtypes(include=np.number) and *)
(* is_numeric_dtype find them: read_csv gives a column of numbers, empty   *)
(* cells or not, a numeric dtype, and every column of a file without rows  *)
(* the dtype object.                                                       *)
NumericCols(t) == IF t.rows = <<>> THEN {} ELSE t.columns \cap NumericColumns

(* The column sets of the files of the model: every column, or all but one *)
DroppableColumns == { "location", "date", "population", "new_deaths", "iso_code" }

ColumnSets == { AllColumns } \cup { AllColumns \ {c} : c \in DroppableColumns }

Row(l, d, v) == [location |-> l, date |-> d, total_cases |-> v]

FileRows == { Row(l, d, v) : l \in LocationValues, d \in DateTexts, v \in CaseValues }

SeqsUpTo(S, k) == UNION { [1..m -> S] : m \in 0..k }

NoTable == [columns |-> {}, datetime |-> FALSE, rows |-> <<>>]

(* pd.read_csv: the table of a file with the given columns and rows; a     *)
(* column the file lacks holds nothing.                                    *)
ReadCsv(cols, rows) ==
    [columns  |-> cols,
     datetime |-> FALSE,
     rows     |-> [i \in 1..Len(rows) |->
                     Row(IF "location" \in cols THEN rows[i].location ELSE Null,
                         IF "date" \in cols THEN rows[i].date ELSE Null,
                         IF "total_cases" \in cols THEN rows[i].total_cases ELSE Null)]]

(* The conversion applied again to a column it has already converted, the *)
(* datetimes read as texts.                                                *)
ToDatetimeAgain(t) ==
    IF "date" \in t.columns
    THEN [t EXCEPT !.datetime = TRUE,
                   !.rows = [i \in 1..Len(t.rows) |->
                               [t.rows[i] EXCEPT !.date = ToDatetimeCell(@)]]]
    ELSE t

(* df["date"] = pd.to_datetime(df["date"], errors="coerce"), guarded by    *)
(* "date" in df.columns.  Applied to datetimes it changes nothing.         *)
ToDatetime(t) ==
    IF "date" \in t.columns /\ ~t.datetime
    THEN [t EXCEPT !.datetime = TRUE,
                   !.rows = [i \in 1..Len(t.rows) |->
                               [t.rows[i] EXCEPT !.date = ToDatetimeCell(@)]]]
    ELSE t

----------------------------------------------------------------------------
(* Dataframe operations used by the script.                                *)

Min(a, b) == IF a <= b THEN a ELSE b

(* The place a stable sort gives an element, from the set of the elements *)
(* that go before it.                                                      *)
Place(before) == 1 + Cardinality(before)

(* Alphabetical order of the location names of the model.                  *)
NameOrder == << "A", "B", "C" >>

(* series == value: a missing value equals nothing, itself included.       *)
CellEq(a, b) == ~IsNull(a) /\ a = b

(* df["location"].unique(): the distinct cells of the column, NaN included *)
LocationOptions(t) == { t.rows[i].location : i \in 1..Len(t.rows) }

(* Order of two rows by date, missing dates last.                          *)
DateBefore(datetime, a, b) ==
    /\ ~IsNull(a.date)
    /\ \/ IsNull(b.date)
       \/ IF datetime THEN a.date[1] < b.date[1] ELSE StrLess(a.date, b.date)

(* rows.sort_values("date"): the rows in ascending order of date, rows of  *)
(* equal date in their order, rows without a date last.                    *)
SortValuesByDate(datetime, rows) ==
    LET before(i) == { j \in 1..Len(rows) :
                         \/ DateBefore(datetime, rows[j], rows[i])
                         \/ (~DateBefore(datetime, rows[i], rows[j]) /\ j < i) }
    IN  [k \in 1..Len(rows) |-> rows[CHOOSE i \in 1..Len(rows) : Place(before(i)) = k]]

(* The slice of the country, sorted by date.                               *)
CountrySliceByDate(t, c) ==
    SortValuesByDate(t.datetime, SelectSeq(t.rows, LAMBDA r : CellEq(r.location, c)))

(* df[df["location"] == country]: a boolean mask keeps the rows in the     *)
(* order of df.                                                            *)
CountrySlice(t, c) == SelectSeq(t.rows, LAMBDA r : CellEq(r.location, c))

(* df["date"].max(): the greatest date, missing dates skipped; NaT when    *)
(* there is none.                                                          *)
MaxDate(t) ==
    LET ds == { t.rows[i].date[1] : i \in { j \in 1..Len(t.rows) : ~IsNull(t.rows[j].date) } }
    IN  IF ds = {} THEN Null ELSE << CHOOSE d \in ds : \A e \in ds : e <= d >>

MinDate(t) ==
    LET ds == { t.rows[i].date[1] : i \in { j \in 1..Len(t.rows) : ~IsNull(t.rows[j].date) } }
    IN  IF ds = {} THEN Null ELSE << CHOOSE d \in ds : \A e \in ds : d <= e >>

(* The groups in the order in which the rows first show them, as          *)
(* groupby(sort=False) gives them.                                         *)
GroupMaxUnsorted(rows) ==
    LET firsts == { i \in 1..Len(rows) :
                      /\ ~IsNull(rows[i].location)
                      /\ \A j \in 1..(i - 1) : rows[j].location # rows[i].location }
        keys == [k \in 1..Cardinality(firsts) |->
                   rows[CHOOSE i \in firsts : Cardinality({ j \in firsts : j < i }) = k - 1].location]
        vals(l) == { rows[i].total_cases[1] :
                       i \in { j \in 1..Len(rows) :
                                 rows[j].location = l /\ ~IsNull(rows[j].total_cases) } }
        best(l) == IF vals(l) = {} THEN Null
                   ELSE << CHOOSE v \in vals(l) : \A w \in vals(l) : w <= v >>
    IN  [k \in 1..Len(keys) |-> [location |-> keys[k], total_cases |-> best(keys[k])]]

(* latest_df.groupby("location")["total_cases"].max(): one entry per       *)
(* location that is not missing, in sorted order of the location; the      *)
(* greatest value of the group, missing values skipped, missing when the   *)
(* group has no value.                                                     *)
GroupMax(rows) ==
    LET keys == SelectSeq(NameOrder,
                   LAMBDA nm : \E i \in 1..Len(rows) : rows[i].location = <<nm>>)
        vals(nm) == { rows[i].total_cases[1] :
                        i \in { j \in 1..Len(rows) :
                                  rows[j].location = <<nm>> /\ ~IsNull(rows[j].total_cases) } }
        best(nm) == IF vals(nm) = {} THEN Null
                    ELSE << CHOOSE v \in vals(nm) : \A w \in vals(nm) : w <= v >>
    IN  [k \in 1..Len(keys) |-> [location |-> <<keys[k]>>, total_cases |-> best(keys[k])]]

(* Series.sort_values(ascending=False) on values that are all present:     *)
(* descending, equal values in their order.                                *)
SortValuesDescending(s) ==
    LET before(i) == { j \in 1..Len(s) :
                         \/ s[j].total_cases[1] > s[i].total_cases[1]
                         \/ (s[j].total_cases[1] = s[i].total_cases[1] /\ j < i) }
    IN  [k \in 1..Len(s) |-> s[CHOOSE i \in 1..Len(s) : Place(before(i)) = k]]

(* The sorted values without the cut to the first k.                       *)
NLargestNoCut(s, k) ==
    LET present == SelectSeq(s, LAMBDA e : ~IsNull(e.total_cases))
        missing == SelectSeq(s, LAMBDA e : IsNull(e.total_cases))
    IN  SortValuesDescending(present) \o missing

(* Series.nlargest(k), keep="first": the values in descending order, equal *)
(* values in the order of the series, missing values after them, cut to    *)
(* the first k.                                                            *)
NLargest(s, k) ==
    LET present == SelectSeq(s, LAMBDA e : ~IsNull(e.total_cases))
        missing == SelectSeq(s, LAMBDA e : IsNull(e.total_cases))
        sorted  == SortValuesDescending(present)
        all     == sorted \o missing
    IN  IF k <= 0 THEN <<>> ELSE SubSeq(all, 1, Min(k, Len(all)))

(* Lines 120-122: the rows at the greatest date of the table, grouped by   *)
(* location, the greatest total_cases of each group, the k largest.        *)
TopNByMetric(t, k) ==
    LET latest_date == MaxDate(t)
        latest_df   == SelectSeq(t.rows, LAMBDA r : CellEq(r.date, latest_date))
    IN  NLargest(GroupMax(latest_df), k)

(* An empty selection read as no selection.                                *)
IsInOrAll(t, locs) ==
    IF locs = {} THEN t
    ELSE [t EXCEPT !.rows = SelectSeq(@, LAMBDA r : r.location \in locs /\ ~IsNull(r.location))]

(* df[df["location"].isin(locations)]                                      *)
IsIn(t, locs) ==
    [t EXCEPT !.rows = SelectSeq(@, LAMBDA r : r.location \in locs /\ ~IsNull(r.location))]

(* The date filter keeping the rows that have no date.                     *)
BetweenOrMissing(t, start, end) ==
    [t EXCEPT !.rows = SelectSeq(@, LAMBDA r :
                           IsNull(r.date) \/ (start <= r.date[1] /\ r.date[1] <= end))]

(* df[(df[date_col] >= start) & (df[date_col] <= end)]: a comparison with  *)
(* a missing date is false.                                                *)
Between(t, start, end) ==
    [t EXCEPT !.rows = SelectSeq(@, LAMBDA r :
                           ~IsNull(r.date) /\ start <= r.date[1] /\ r.date[1] <= end)]

(* df.sort_values(date_col).groupby("location").tail(1): the rows in date  *)
(* order, missing dates last, and of each location that is not missing     *)
(* the last row in that order.                                             *)
LatestPerLocation(t) ==
    LET sorted == SortValuesByDate(t.datetime, t.rows)
        keep   == { i \in 1..Len(sorted) :
                      /\ ~IsNull(sorted[i].location)
                      /\ \A j \in (i + 1)..Len(sorted) :
                            sorted[j].location # sorted[i].location }
        idx    == [k \in 1..Cardinality(keep) |->
                     CHOOSE i \in keep : Cardinality({ j \in keep : j < i }) = k - 1]
    IN  [k \in 1..Len(idx) |-> sorted[idx[k]]]

----------------------------------------------------------------------------
(* The dashboard script, src/app.py, one run from top to bottom.  An       *)
(* exception that no handler catches ends the run where it is raised;      *)
(* st.stop() ends it too.  Spec is the run from line 1 to line 186, the    *)
(* state before the second load; SpecMap is the rest of the run, lines     *)
(* 188-214, from states in which Spec reaches line 188.                    *)

Tables == { ReadCsv(cols, rows) : cols \in ColumnSets, rows \in SeqsUpTo(FileRows, MaxRows) }

(* What the date picker may return: a start and an end, or, while the     *)
(* user has picked the start only, a tuple of one date.                    *)
Ranges == { <<9, 10>>, <<10, 10>>, <<9>> }

MetricChoices == { "new_deaths", "total_cases" }

(* The diagnostic command is not running.                                 *)
CliIdle ==
    /\ cli_pc = "idle"
    /\ cli_path = [exists |-> FALSE, name |-> <<>>]
    /\ cli_file = <<>>
    /\ cli_i = 0
    /\ cli_out = <<>>
    /\ cli_exit = 0

Init ==
    /\ pc = "load"
    /\ df = NoTable
    /\ loaded = NoTable
    /\ n = TopN
    /\ country = Null
    /\ country_df = <<>>
    /\ top10 = <<>>
    /\ metric = Null
    /\ date_col = Null
    /\ locations = {}
    /\ date_range = <<>>
    /\ latest = <<>>
    /\ displayed = {}
    /\ outcome = "running"
    /\ CliIdle

(* The run ends with an uncaught exception, or at st.stop().               *)
Abort(kind) ==
    /\ pc' = "end"
    /\ outcome' = kind

(* px.line / px.bar / px.scatter / ... raise ValueError when an argument   *)
(* names a column the frame lacks.  The charts of a block are drawn in     *)
(* order up to the first that raises.                                      *)
RECURSIVE Drawn(_, _)
Drawn(charts, cols) ==
    IF charts = <<>> \/ ~(charts[1].needs \subseteq cols) THEN {}
    ELSE { charts[1].name } \cup Drawn(Tail(charts), cols)

AllDrawn(charts, cols) == \A i \in 1..Len(charts) : charts[i].needs \subseteq cols

(* Lines 10-30: the first load.  read_csv of a path that cannot be read    *)
(* raises; an upload not yet given stops the run; a table read has its     *)
(* date column converted.                                                  *)
LoadFirst ==
    /\ pc = "load"
    /\ \/ /\ Abort("FileNotFoundError")
          /\ UNCHANGED <<df, loaded, displayed>>
       \/ /\ Abort("stopped")
          /\ UNCHANGED <<df, loaded, displayed>>
       \/ \E t \in Tables :
             /\ df' = ToDatetime(t)
             /\ loaded' = ToDatetime(t)
             /\ displayed' = displayed \cup { "loaded" }
             /\ pc' = "starter"
             /\ UNCHANGED outcome
    /\ UNCHANGED <<n, country, country_df, top10, metric, date_col, locations,
                   date_range, latest, cliVars>>

StarterChartList ==
    << [name |-> "cases",     needs |-> { "date", "total_cases" }],
       [name |-> "deaths",    needs |-> { "date", "total_deaths" }],
       [name |-> "new_cases", needs |-> { "date", "new_cases" }] >>

(* Lines 32-69: the country selector, the slice of the country and the     *)
(* three charts of it.  The selector offers the distinct locations and     *)
(* returns None when there is none.                                        *)
StarterCharts ==
    /\ pc = "starter"
    /\ IF "location" \notin df.columns
       THEN /\ Abort("KeyError")
            /\ UNCHANGED <<country, country_df, displayed>>
       ELSE \E c \in (IF LocationOptions(df) = {} THEN { Null } ELSE LocationOptions(df)) :
               /\ country' = c
               /\ country_df' = CountrySlice(df, c)
               /\ displayed' = displayed \cup Drawn(StarterChartList, df.columns)
               /\ IF AllDrawn(StarterChartList, df.columns)
                  THEN pc' = "scatter" /\ UNCHANGED outcome
                  ELSE Abort("ValueError")
    /\ UNCHANGED <<df, loaded, n, top10, metric, date_col, locations, date_range,
                   latest, cliVars>>

(* Lines 72-85: the scatter plot of the rows that have a population.       *)
Scatter ==
    /\ pc = "scatter"
    /\ IF "population" \notin df.columns
       THEN Abort("KeyError") /\ UNCHANGED displayed
       ELSE IF ~({ "total_cases", "total_deaths", "continent", "location" } \subseteq df.columns)
       THEN Abort("ValueError") /\ UNCHANGED displayed
       ELSE /\ displayed' = displayed \cup { "scatter" }
            /\ pc' = "pie"
            /\ UNCHANGED outcome
    /\ UNCHANGED <<df, loaded, n, country, country_df, top10, metric, date_col,
                   locations, date_range, latest, cliVars>>

(* Lines 87-100: the pie chart, drawn when both columns exist.             *)
Pie ==
    /\ pc = "pie"
    /\ displayed' = IF { "total_deaths", "total_cases" } \subseteq df.columns
                    THEN displayed \cup { "pie" } ELSE displayed
    /\ pc' = "heatmap"
    /\ UNCHANGED <<df, loaded, n, country, country_df, top10, metric, date_col,
                   locations, date_range, latest, outcome, cliVars>>

(* Lines 102-116: the correlation heatmap, drawn when the table has more   *)
(* than one numeric column.                                                *)
Heatmap ==
    /\ pc = "heatmap"
    /\ displayed' = IF Cardinality(NumericCols(df)) > 1
                    THEN displayed \cup { "heatmap" } ELSE displayed
    /\ pc' = "top10"
    /\ UNCHANGED <<df, loaded, n, country, country_df, top10, metric, date_col,
                   locations, date_range, latest, outcome, cliVars>>

(* Lines 118-135: the top countries by total cases at the latest date.     *)
(* nlargest raises TypeError on a column that is not numeric.              *)
Top10 ==
    /\ pc = "top10"
    /\ IF ~({ "date", "location", "total_cases" } \subseteq df.columns)
       THEN Abort("KeyError") /\ UNCHANGED <<top10, displayed>>
       ELSE IF "total_cases" \notin NumericCols(df)
       THEN Abort("TypeError") /\ UNCHANGED <<top10, displayed>>
       ELSE /\ top10' = TopNByMetric(df, n)
            /\ displayed' = displayed \cup { "top10" }
            /\ pc' = "area"
            /\ UNCHANGED outcome
    /\ UNCHANGED <<df, loaded, n, country, country_df, metric, date_col, locations,
                   date_range, latest, cliVars>>

(* Lines 137-147: the area chart of the country, drawn when both columns   *)
(* exist.                                                                  *)
Area ==
    /\ pc = "area"
    /\ IF { "new_cases", "new_deaths" } \subseteq df.columns
       THEN IF "date" \in df.columns
            THEN /\ displayed' = displayed \cup { "area" }
                 /\ pc' = "summary"
                 /\ UNCHANGED outcome
            ELSE Abort("ValueError") /\ UNCHANGED displayed
       ELSE /\ pc' = "summary"
            /\ UNCHANGED <<displayed, outcome>>
    /\ UNCHANGED <<df, loaded, n, country, country_df, top10, metric, date_col,
                   locations, date_range, latest, cliVars>>

(* Lines 149-151: the summary statistics of the slice of the country.      *)
Summary ==
    /\ pc = "summary"
    /\ displayed' = displayed \cup { "summary" }
    /\ pc' = "options"
    /\ UNCHANGED <<df, loaded, n, country, country_df, top10, metric, date_col,
                   locations, date_range, latest, outcome, cliVars>>

(* Lines 153-165: the date column is converted again, and the chart       *)
(* options are read: the metric is one of the numeric columns (None when   *)
(* there is none); the group-by option is read and never used.             *)
ChartOptions ==
    /\ pc = "options"
    /\ df' = ToDatetime(df)
    /\ date_col' = IF "date" \in df.columns THEN <<"date">> ELSE Null
    /\ LET numeric_cols == NumericCols(df)
       IN  IF numeric_cols = {} THEN metric' = Null
           ELSE \E m \in numeric_cols \cap MetricChoices : metric' = <<m>>
    /\ pc' = "locfilter"
    /\ UNCHANGED <<loaded, n, country, country_df, top10, locations, date_range,
                   latest, displayed, outcome, cliVars>>

(* Lines 167-170: the locations are picked among the locations of the      *)
(* table, and df becomes its rows at these locations.                      *)
LocationFilter ==
    /\ pc = "locfilter"
    /\ IF "location" \notin df.columns
       THEN Abort("KeyError") /\ UNCHANGED <<locations, df>>
       ELSE \E locs \in SUBSET (LocationOptions(df) \ { Null }) :
               /\ locations' = locs
               /\ df' = IsIn(df, locs)
               /\ pc' = "datefilter"
               /\ UNCHANGED outcome
    /\ UNCHANGED <<loaded, n, country, country_df, top10, metric, date_col,
                   date_range, latest, displayed, cliVars>>

(* st.date_input(value=(min_date, max_date)) when the table has no date:   *)
(* both are NaT, and the widget is given no date; whether it raises is     *)
(* the library's matter, and both outcomes are kept.                       *)
DateInputMayRaise(t) == IsNull(MinDate(t))

(* Lines 172-177: with a date column, the date range is read and, when it  *)
(* is a pair, df becomes its rows between the two dates.                   *)
DateFilter ==
    /\ pc = "datefilter"
    /\ IF IsNull(date_col)
       THEN /\ pc' = "kpis"
            /\ UNCHANGED <<df, date_range, outcome>>
       ELSE \/ /\ DateInputMayRaise(df)
               /\ Abort("StreamlitAPIException")
               /\ UNCHANGED <<df, date_range>>
            \/ \E r \in Ranges :
                  /\ date_range' = r
                  /\ df' = IF Len(r) = 2 THEN Between(df, r[1], r[2]) ELSE df
                  /\ pc' = "kpis"
                  /\ UNCHANGED outcome
    /\ UNCHANGED <<loaded, n, country, country_df, top10, metric, date_col,
                   locations, latest, displayed, cliVars>>

(* Lines 179-186: the row count, the sum and the mean of the metric.       *)
KPIs ==
    /\ pc = "kpis"
    /\ IF IsNull(metric) \/ metric[1] \notin df.columns
       THEN Abort("KeyError") /\ UNCHANGED displayed
       ELSE /\ displayed' = displayed \cup { "kpis" }
            /\ pc' = "reload"
            /\ UNCHANGED outcome
    /\ UNCHANGED <<df, loaded, n, country, country_df, top10, metric, date_col,
                   locations, date_range, latest, cliVars>>

(* Lines 188-205: the second load.  A path that cannot be read shows the   *)
(* error and stops the run, and so does an upload not yet given; a table   *)
(* read replaces df as read_csv returns it.                                *)
LoadSecond ==
    /\ pc = "reload"
    /\ \/ /\ Abort("stopped")
          /\ displayed' = displayed \cup { "load_error" }
          /\ UNCHANGED <<df, loaded>>
       \/ /\ Abort("stopped")
          /\ UNCHANGED <<df, loaded, displayed>>
       \/ \E t \in Tables :
             /\ df' = t
             /\ loaded' = t
             /\ pc' = "map"
             /\ UNCHANGED <<displayed, outcome>>
    /\ UNCHANGED <<n, country, country_df, top10, metric, date_col, locations,
                   date_range, latest, cliVars>>

(* Lines 206-213: the latest row of each location and the map of it.       *)
Map ==
    /\ pc = "map"
    /\ IF IsNull(date_col) \/ date_col[1] \notin df.columns \/ "location" \notin df.columns
       THEN /\ Abort("KeyError")
            /\ displayed' = displayed \cup { "map_title" }
            /\ UNCHANGED latest
       ELSE /\ latest' = LatestPerLocation(df)
            /\ IF { "iso_code", "location" } \subseteq df.columns
                  /\ (IsNull(metric) \/ metric[1] \in df.columns)
               THEN /\ displayed' = displayed \cup { "map_title", "map" }
                    /\ pc' = "end"
                    /\ outcome' = "finished"
               ELSE /\ Abort("ValueError")
                    /\ displayed' = displayed \cup { "map_title" }
    /\ UNCHANGED <<df, loaded, n, country, country_df, top10, metric, date_col,
                   locations, date_range, cliVars>>

Next ==
    \/ LoadFirst
    \/ StarterCharts
    \/ Scatter
    \/ Pie
    \/ Heatmap
    \/ Top10
    \/ Area
    \/ Summary
    \/ ChartOptions
    \/ LocationFilter
    \/ DateFilter
    \/ KPIs

Spec == Init /\ [][Next]_vars

----------------------------------------------------------------------------
(* Lines 188-214.  The run is at line 188 after a first file of one row,   *)
(* that row picked as the country and kept by both filters, with either    *)
(* metric.                                                                 *)

FirstFileOfMap == ToDatetime(ReadCsv(AllColumns, << Row(<<"A">>, <<9>>, <<1>>) >>))

DisplayedBeforeReload ==
    { "loaded", "cases", "deaths", "new_cases", "scatter", "pie", "heatmap", "top10",
      "area", "summary", "kpis" }

AtReload ==
    /\ pc = "reload"
    /\ df = FirstFileOfMap
    /\ loaded = FirstFileOfMap
    /\ n = TopN
    /\ country = <<"A">>
    /\ country_df = FirstFileOfMap.rows
    /\ top10 = << [location |-> <<"A">>, total_cases |-> <<1>>] >>
    /\ metric \in { <<m>> : m \in MetricChoices }
    /\ date_col = <<"date">>
    /\ locations = { <<"A">> }
    /\ date_range = <<9, 10>>
    /\ latest = <<>>
    /\ displayed = DisplayedBeforeReload
    /\ outcome = "running"

InitMap == AtReload /\ CliIdle

NextMap == LoadSecond \/ Map

SpecMap == InitMap /\ [][NextMap]_vars

----------------------------------------------------------------------------
(* Lines 118-135 alone, on every table of the bounds and every count k of  *)
(* nlargest(k).  The tables are tables after the first load: every column, *)
(* the dates converted.                                                    *)

TopLocationValues == { <<"A">>, <<"B">>, <<"C">> }

TopRows == { Row(l, d, v) : l \in TopLocationValues, d \in { <<9>>, <<10>> },
                             v \in { <<1>>, <<2>>, Null } }

TopTables == { [columns |-> AllColumns, datetime |-> TRUE, rows |-> rows] :
                 rows \in SeqsUpTo(TopRows, MaxTopRows) }

InitTopN ==
    /\ pc = "top10"
    /\ df \in TopTables
    /\ loaded = df
    /\ n \in 1..MaxN
    /\ country = (IF df.rows = <<>> THEN Null ELSE df.rows[1].location)
    /\ country_df = CountrySlice(df, country)
    /\ top10 = <<>>
    /\ metric = Null
    /\ date_col = Null
    /\ locations = {}
    /\ date_range = <<>>
    /\ latest = <<>>
    /\ displayed = { "loaded", "cases", "deaths", "new_cases", "scatter", "pie" }
                      \cup (IF df.rows = <<>> THEN {} ELSE { "heatmap" })
    /\ outcome = "running"
    /\ CliIdle

SpecTopN == InitTopN /\ [][Top10]_vars

----------------------------------------------------------------------------
(* The diagnostic command, src/scripts/check_data.py.  A path is whether   *)
(* a file is there and the name of its last component, cut before each of  *)
(* its dots: "data.tar.gz" is << "data", ".tar", ".gz" >> and the hidden   *)
(* file ".csv" is << ".csv" >>.                                            *)

FileNames ==
    { << "data", ".csv" >>, << "data", ".CSV" >>, << "data", ".txt" >>,
      << "data", ".xlsx" >>, << "data", ".xls" >>, << "data", ".XLS" >>,
      << "data", ".json" >>, << "data" >>, << ".csv" >>,
      << "data", ".csv", ".gz" >>, << "data", ".json", ".csv" >> }

(* The first dotted part of the name instead of the last.                  *)
SuffixFirst(name) == IF Len(name) > 1 THEN name[2] ELSE ""

(* Path.suffix: the last dotted part of the name, empty when the name has  *)
(* no dot after its first character.                                       *)
Suffix(name) == IF Len(name) > 1 THEN name[Len(name)] ELSE ""

(* str.lower() on the suffixes of the model.                               *)
Lower(s) ==
    CASE s = ".CSV" -> ".csv"
      [] s = ".XLS" -> ".xls"
      [] OTHER -> s

CsvSuffixes == { ".csv", ".txt" }

ExcelSuffixes == { ".xlsx", ".xls" }

CliColumnNames == { "date", "Date_reported", "new_deaths", "location" }

(* "date" in c.lower(), "death" in c.lower(), and c.lower() in             *)
(* ["location", "continent", "iso_code"], on the column names of the model *)
HasDate(c) == c \in { "date", "Date_reported" }

HasDeath(c) == c \in { "new_deaths" }

IsLocationName(c) == c \in { "location" }

InitCli ==
    /\ cli_pc = "start"
    /\ cli_path \in [exists : BOOLEAN, name : FileNames]
    /\ cli_file = <<>>
    /\ cli_i = 0
    /\ cli_out = <<>>
    /\ cli_exit = 0
    /\ pc = "idle"
    /\ df = NoTable
    /\ loaded = NoTable
    /\ n = TopN
    /\ country = Null
    /\ country_df = <<>>
    /\ top10 = <<>>
    /\ metric = Null
    /\ date_col = Null
    /\ locations = {}
    /\ date_range = <<>>
    /\ latest = <<>>
    /\ displayed = {}
    /\ outcome = "running"

(* A line of output: what it says and the column names it lists.          *)
Line(text, cols) == [text |-> text, cols |-> cols]

(* sys.exit(1), or an exception that reaches the top of the script.        *)
CliFail(message) ==
    /\ cli_out' = Append(cli_out, Line(message, <<>>))
    /\ cli_exit' = 1
    /\ cli_pc' = "exit"

(* Lines 11-14: a path that does not exist.                                *)
CliCheckExists ==
    /\ cli_pc = "start"
    /\ IF ~cli_path.exists
       THEN CliFail("File not found")
       ELSE /\ cli_pc' = "read"
            /\ UNCHANGED <<cli_out, cli_exit>>
    /\ UNCHANGED <<cli_path, cli_file, cli_i, appVars>>

(* Lines 16-22: the reader is chosen by the lower-cased suffix; any other  *)
(* suffix is refused.  The reader may raise on what the file holds.        *)
CliRead ==
    /\ cli_pc = "read"
    /\ IF Lower(Suffix(cli_path.name)) \in CsvSuffixes \cup ExcelSuffixes
       THEN \/ /\ CliFail("Traceback")
               /\ UNCHANGED cli_file
            \/ \E cols \in SeqsUpTo(CliColumnNames, MaxCliCols) :
                  /\ cli_file' = cols
                  /\ cli_pc' = "head"
                  /\ UNCHANGED <<cli_out, cli_exit>>
       ELSE /\ CliFail("Unsupported file type")
            /\ UNCHANGED cli_file
    /\ UNCHANGED <<cli_path, cli_i, appVars>>

(* Lines 24-27: the path, the shape and the heading of the column list.    *)
CliPrintHead ==
    /\ cli_pc = "head"
    /\ cli_out' = cli_out \o << Line("Loaded file", <<>>), Line("Shape", <<>>),
                               Line("Columns", <<>>) >>
    /\ cli_i' = 1
    /\ cli_pc' = "columns"
    /\ UNCHANGED <<cli_path, cli_file, cli_exit, appVars>>

(* Lines 28-29: one line for each column.                                  *)
CliPrintColumn ==
    /\ cli_pc = "columns"
    /\ IF cli_i <= Len(cli_file)
       THEN /\ cli_out' = Append(cli_out, Line("column", << cli_file[cli_i] >>))
            /\ cli_i' = cli_i + 1
            /\ UNCHANGED cli_pc
       ELSE /\ cli_pc' = "guess"
            /\ UNCHANGED <<cli_out, cli_i>>
    /\ UNCHANGED <<cli_path, cli_file, cli_exit, appVars>>

(* Lines 31-41: the columns guessed by name, the first rows, and the end   *)
(* of main with status 0.                                                  *)
CliGuessAndSample ==
    /\ cli_pc = "guess"
    /\ cli_out' = cli_out \o
          << Line("Date columns", SelectSeq(cli_file, HasDate)),
             Line("Death columns", SelectSeq(cli_file, HasDeath)),
             Line("Location columns", SelectSeq(cli_file, IsLocationName)),
             Line("Sample rows", <<>>) >>
    /\ cli_pc' = "exit"
    /\ UNCHANGED <<cli_path, cli_file, cli_i, cli_exit, appVars>>

NextCli ==
    \/ CliCheckExists
    \/ CliRead
    \/ CliPrintHead
    \/ CliPrintColumn
    \/ CliGuessAndSample

SpecCli == InitCli /\ [][NextCli]_vars

----------------------------------------------------------------------------
(* Properties.                                                             *)

Indices(s) == 1..Len(s)

(* a is b with some rows left out, the others in the order of b.           *)
IsSubSeqOf(a, b) ==
    \E f \in [Indices(a) -> Indices(b)] :
        /\ \A i \in Indices(a) : b[f[i]] = a[i]
        /\ \A i, j \in Indices(a) : i < j => f[i] < f[j]

NameLess(a, b) ==
    \E i, j \in Indices(NameOrder) : i < j /\ a = <<NameOrder[i]>> /\ b = <<NameOrder[j]>>

(* The calendar date of a date cell of table t: the cell when the column   *)
(* holds datetimes, the date its text names otherwise.                     *)
CalendarDate(t, cell) == IF t.datetime THEN cell ELSE ToDatetimeCell(cell)

LaterDate(a, b) == ~IsNull(a) /\ ~IsNull(b) /\ a[1] > b[1]

PresentLocations(t) == LocationOptions(t) \ { Null }

AfterStarter ==
    pc \in { "scatter", "pie", "heatmap", "top10", "area", "summary", "options",
             "locfilter", "datefilter", "kpis", "reload" }

BeforeFilters ==
    pc \in { "starter", "scatter", "pie", "heatmap", "top10", "area", "summary",
             "options", "locfilter" }

AfterLocationFilter == pc \in { "datefilter", "kpis", "reload" }

AfterDateFilter == pc \in { "kpis", "reload" }

(* C1: the table of the map has exactly one row for each location of the   *)
(* table it is built from, and no row of that table with the same location *)
(* has a strictly later calendar date (a missing date is later than none). *)
C1_LatestPerLocation ==
    (pc = "end" /\ outcome = "finished") =>
        /\ \A l \in PresentLocations(df) :
              Cardinality({ i \in Indices(latest) : latest[i].location = l }) = 1
        /\ \A i \in Indices(latest) : latest[i].location \in PresentLocations(df)
        /\ \A i \in Indices(latest) : \A j \in Indices(df.rows) :
              df.rows[j].location = latest[i].location =>
                 ~LaterDate(CalendarDate(df, df.rows[j].date),
                            CalendarDate(df, latest[i].date))

(* The rows of t at its greatest date, and the locations among them.       *)
RowsAtMaxDate(t) == SelectSeq(t.rows, LAMBDA r : ~IsNull(r.date) /\ r.date = MaxDate(t))

GroupsAtMaxDate(t) ==
    { RowsAtMaxDate(t)[i].location : i \in Indices(RowsAtMaxDate(t)) } \ { Null }

(* C2: the top-n table has at most n rows, its values descend (missing     *)
(* values last), and no location is in it twice.                           *)
C2_TopNBounded ==
    pc = "area" =>
        /\ Len(top10) <= n
        /\ \A i, j \in Indices(top10) : i < j =>
              /\ IsNull(top10[i].total_cases) => IsNull(top10[j].total_cases)
              /\ (~IsNull(top10[i].total_cases) /\ ~IsNull(top10[j].total_cases))
                    => top10[i].total_cases[1] >= top10[j].total_cases[1]
              /\ top10[i].location # top10[j].location

C2_Witness ==
    /\ pc = "area"
    /\ n = 2
    /\ Cardinality(GroupsAtMaxDate(df)) = 3
    /\ Len(top10) = 2
    /\ top10[1].total_cases = <<2>>
    /\ top10[2].total_cases = <<1>>

(* C3, as claimed: once the location filter has run with no location       *)
(* selected, the run has failed with EmptySelection.                       *)
C3_EmptySelectionFails ==
    (AfterLocationFilter /\ locations = {}) => outcome = "EmptySelection"

(* C3, amended: with no location selected the location filter does not     *)
(* fail; it leaves a table without rows as the current table, and the run  *)
(* goes on.                                                                *)
C3_EmptySelectionEmptyTable ==
    (AfterLocationFilter /\ locations = {}) =>
        /\ df.rows = <<>>
        /\ df.columns = loaded.columns
        /\ outcome = "running"

C3_Witness ==
    /\ pc = "datefilter"
    /\ locations = {}
    /\ PresentLocations(loaded) # {}
    /\ df.rows = <<>>

(* C4: when the date picker gave no pair of dates, the filtered table is   *)
(* the rows of the loaded table whose location is selected, in their       *)
(* order, those without a date included; when it gave a pair, no row       *)
(* without a date is left.                                                 *)
C4_NoDateBoundKeepsRows ==
    AfterDateFilter =>
        /\ Len(date_range) # 2 =>
              /\ IsSubSeqOf(df.rows, loaded.rows)
              /\ \A i \in Indices(df.rows) : df.rows[i].location \in locations
              /\ Len(df.rows) = Cardinality({ j \in Indices(loaded.rows) :
                                                loaded.rows[j].location \in locations })
        /\ Len(date_range) = 2 =>
              \A i \in Indices(df.rows) : ~IsNull(df.rows[i].date)

C4_Witness ==
    /\ pc = "kpis"
    /\ Len(date_range) = 1
    /\ Len(df.rows) < Len(loaded.rows)
    /\ \E i \in Indices(df.rows) : IsNull(df.rows[i].date)
    /\ \E i \in Indices(df.rows) : ~IsNull(df.rows[i].date)

(* C5, as claimed: the slice of the country is in ascending order of date, *)
(* the rows without a date last.                                           *)
C5_SliceSortedByDate ==
    AfterStarter =>
        \A i, j \in Indices(country_df) :
            i < j => ~DateBefore(TRUE, country_df[j], country_df[i])

(* C5, amended: the slice of the country is exactly the rows of the loaded *)
(* table whose location is the selected one, in the order of the loaded    *)
(* table; it is not sorted by date.                                        *)
C5_SliceInInputOrder ==
    AfterStarter =>
        /\ IsSubSeqOf(country_df, loaded.rows)
        /\ \A i \in Indices(country_df) :
              ~IsNull(country) /\ country_df[i].location = country
        /\ Len(country_df) = Cardinality({ j \in Indices(loaded.rows) :
                                 ~IsNull(country) /\ loaded.rows[j].location = country })

C5_Witness ==
    /\ pc = "scatter"
    /\ Len(country_df) >= 2
    /\ LaterDate(country_df[1].date, country_df[2].date)

(* C6, as claimed: after the load the current table is always the table    *)
(* the load left.                                                          *)
C6_DatasetReadOnly == pc # "load" => df = loaded

(* C6, amended: the current table is the loaded table up to the sidebar    *)
(* filters; from the location filter on it is the loaded table with rows   *)
(* left out, the rows kept unchanged and in order.                         *)
C6_ReadOnlyUntilFilters ==
    /\ BeforeFilters => df = loaded
    /\ AfterLocationFilter =>
          /\ df.columns = loaded.columns
          /\ df.datetime = loaded.datetime
          /\ IsSubSeqOf(df.rows, loaded.rows)

C6_Witness ==
    /\ pc = "kpis"
    /\ Len(df.rows) >= 1
    /\ Len(df.rows) < Len(loaded.rows)
    /\ \E i \in Indices(loaded.rows) : loaded.rows[i].date = <<10>>

(* The columns each displayed item is computed from.                       *)
ChartNeeds ==
    [ cases     |-> { "location", "date", "total_cases" },
      deaths    |-> { "location", "date", "total_deaths" },
      new_cases |-> { "location", "date", "new_cases" },
      scatter   |-> { "population", "total_cases", "total_deaths", "continent", "location" },
      pie       |-> { "total_deaths", "total_cases" },
      top10     |-> { "date", "location", "total_cases" },
      area      |-> { "location", "date", "new_cases", "new_deaths" },
      summary   |-> { "location" } ]

(* C7: when a run ends on a missing column, every item whose columns are   *)
(* all in the table has been displayed.                                    *)
C7_PartialFailureTolerance ==
    (pc = "end" /\ outcome \in { "KeyError", "ValueError" }) =>
        \A c \in DOMAIN ChartNeeds : ChartNeeds[c] \subseteq loaded.columns => c \in displayed

(* C8: after a load, the second included, the date column holds dates.     *)
C8_EveryLoadCoerces ==
    (pc \notin { "load", "idle" } /\ "date" \in df.columns) => df.datetime

(* The extension of a file name, and the extensions the command reads.     *)
Extension(name) == IF Len(name) > 1 THEN name[Len(name)] ELSE ""

Readable == { ".csv", ".CSV", ".txt", ".xlsx", ".xls", ".XLS" }

Said(text) == \E i \in Indices(cli_out) : cli_out[i].text = text

FirstRowOf(t, l) == CHOOSE i \in Indices(t.rows) :
                       /\ t.rows[i].location = l
                       /\ \A j \in 1..(i - 1) : t.rows[j].location # l

(* The greatest total_cases of location l among the rows at the greatest   *)
(* date, missing when it has none.                                         *)
ValueAtMaxDate(t, l) ==
    LET vs == { RowsAtMaxDate(t)[i].total_cases[1] :
                  i \in { j \in Indices(RowsAtMaxDate(t)) :
                            /\ RowsAtMaxDate(t)[j].location = l
                            /\ ~IsNull(RowsAtMaxDate(t)[j].total_cases) } }
    IN  IF vs = {} THEN Null ELSE << CHOOSE v \in vs : \A w \in vs : w <= v >>

(* C10, as claimed: locations of equal value are in the top-n table in the *)
(* order in which the rows of the table first show them.                   *)
C10_TiesFirstEncountered ==
    pc = "area" =>
        \A i, j \in Indices(top10) :
            (i < j /\ ~IsNull(top10[i].total_cases)
                   /\ top10[i].total_cases = top10[j].total_cases)
               => FirstRowOf(df, top10[i].location) < FirstRowOf(df, top10[j].location)

(* C10, amended: locations of equal value are in the top-n table in        *)
(* ascending order of the location, and of the locations of equal value    *)
(* the cut to n keeps the first in that order.                             *)
C10_TiesByLocation ==
    pc = "area" =>
        /\ \A i, j \in Indices(top10) :
              (i < j /\ top10[i].total_cases = top10[j].total_cases)
                 => NameLess(top10[i].location, top10[j].location)
        /\ \A i \in Indices(top10) : \A l \in GroupsAtMaxDate(df) :
              (/\ \A k \in Indices(top10) : top10[k].location # l
               /\ ValueAtMaxDate(df, l) = top10[i].total_cases)
                 => NameLess(top10[i].location, l)

C10_Witness ==
    /\ pc = "area"
    /\ n = 1
    /\ Len(top10) = 1
    /\ top10[1].location = <<"A">>
    /\ df.rows[1].location = <<"B">>
    /\ ValueAtMaxDate(df, <<"B">>) = top10[1].total_cases
    /\ <<"B">> \in GroupsAtMaxDate(df)

====
